---- MODULE Spec2Model ----
(***************************************************************************)
(* A model of cherab/tools/observers/bolometry.py: the bolometer camera,   *)
(* its slits and foils, the registration of foils, indexing, observation   *)
(* and the JSON save / load of a camera.                                   *)
(*                                                                         *)
(* Python objects are records that carry an object identity `oid`, so that *)
(* record equality is object identity: BolometerSlit and BolometerFoil do  *)
(* not define __eq__, and `x in list` therefore compares by identity.      *)
(***************************************************************************)
EXTENDS Integers, Sequences, FiniteSets, TLC

VARIABLES
    cam,        \* the BolometerCamera: name, _foil_detectors, _slits
    parent,     \* the `parent` attribute of every foil object, by oid
    pipeline,   \* the PowerPipeline0D of every foil object, by oid
    result,     \* outcome of the last operation (value returned or exception raised)
    file,       \* the content of the file save() writes and load reads
    twin,       \* a second camera, filled one add_foil_detector call at a time
    todo        \* the list that is assigned in bulk to cam and added one by one to twin

vars == <<cam, parent, pipeline, result, file, twin, todo>>

(***************************************************************************)
(* Bounds of the model.                                                    *)
(***************************************************************************)
MaxFoils == 2       \* longest foil sequence a camera is grown to by add_foil_detector
MaxList == 2        \* longest list assigned to foil_detectors
MaxTodo == 3        \* longest list registered both in bulk and one by one
MaxEntries == 1     \* longest slit list and foil list of a hand-written file

Range(s) == {s[i] : i \in 1..Len(s)}

SeqsUpTo(S, n) == UNION {[1..k -> S] : k \in 0..n}

None == [kind |-> "NoneType", oid |-> 0]

(***************************************************************************)
(* The objects of the model.  The two slits are two instances with the     *)
(* same fields; foils 1 and 2 share the slit instance 1; foils 1 and 3     *)
(* carry the same detector id.                                             *)
(***************************************************************************)
BolometerSlit(oid, slid_id) ==
    [kind |-> "BolometerSlit", oid |-> oid, slid_id |-> slid_id]

BolometerFoilObj(oid, detector_id, slit, ray_type) ==
    [kind |-> "BolometerFoil", oid |-> oid, detector_id |-> detector_id,
     slit |-> slit, ray_type |-> ray_type]

SlitObjs == {BolometerSlit(1, "S1"), BolometerSlit(2, "S1")}

FoilObjs ==
    {BolometerFoilObj(1, "F1", BolometerSlit(1, "S1"), "Targeted"),
     BolometerFoilObj(2, "F2", BolometerSlit(1, "S1"), "Sightline"),
     BolometerFoilObj(3, "F1", BolometerSlit(2, "S1"), "Targeted")}

\* an object that is not a BolometerFoil (a string, say)
NotAFoil == [kind |-> "str", oid |-> 0]

Objects == FoilObjs \cup {NotAFoil}

IsFoil(x) == x.kind = "BolometerFoil"

\* BolometerCamera.__init__
NewCamera(name) == [name |-> name, _foil_detectors |-> <<>>, _slits |-> <<>>]

FoilIds == {f.oid : f \in FoilObjs}

NoParent == [f \in FoilIds |-> "None"]

\* what an operation leaves behind: the camera, the foils' parents, the exception
Outcome(c, par, err) == [cam |-> c, parent |-> par, err |-> err]

(***************************************************************************)
(* `if not foil_detector.slit in self._slits: self._slits.append(...)`     *)
(***************************************************************************)
\* variant: the slit is appended without the membership test
RegisterAlways(slits, slit) == Append(slits, slit)

RegisterSlit(slits, slit) ==
    IF slit \in Range(slits) THEN slits ELSE Append(slits, slit)

(***************************************************************************)
(* BolometerCamera.add_foil_detector                                       *)
(***************************************************************************)
\* variant: the foil is appended without `foil_detector.parent = self`
AddNoParent(c, par, fd) ==
    IF ~IsFoil(fd) THEN Outcome(c, par, "TypeError")
    ELSE Outcome([c EXCEPT !._slits = RegisterSlit(c._slits, fd.slit),
                           !._foil_detectors = Append(c._foil_detectors, fd)],
                 par, "none")

add_foil_detector(c, par, fd) ==
    IF ~IsFoil(fd) THEN Outcome(c, par, "TypeError")
    ELSE Outcome([c EXCEPT !._slits = RegisterSlit(c._slits, fd.slit),
                           !._foil_detectors = Append(c._foil_detectors, fd)],
                 [par EXCEPT ![fd.oid] = "camera"], "none")

(***************************************************************************)
(* The foil_detectors setter.  A value is [kind, items]; only kind "list"  *)
(* passes isinstance(value, list).  The loop runs over the copy and        *)
(* raises at the first element that is not a foil; the slits and parents   *)
(* handled before it stay as the loop left them.                           *)
(***************************************************************************)
RECURSIVE SetterLoop(_, _, _, _)
SetterLoop(c, par, value, i) ==
    IF i > Len(value) THEN Outcome([c EXCEPT !._foil_detectors = value], par, "none")
    ELSE IF ~IsFoil(value[i]) THEN Outcome(c, par, "TypeError")
    ELSE SetterLoop([c EXCEPT !._slits = RegisterSlit(c._slits, value[i].slit)],
                    [par EXCEPT ![value[i].oid] = "camera"], value, i + 1)

set_foil_detectors(c, par, value) ==
    IF value.kind # "list" THEN Outcome(c, par, "TypeError")
    ELSE SetterLoop(c, par, value.items, 1)

EmptyPipeline == [samples |-> 0, total |-> 0]

Init ==
    /\ cam = NewCamera("C1")
    /\ parent = NoParent
    /\ pipeline = [f \in FoilIds |-> EmptyPipeline]
    /\ result = [op |-> "init"]
    /\ file = None
    /\ twin = None
    /\ todo = None

(***************************************************************************)
(* camera.add_foil_detector(fd)                                            *)
(***************************************************************************)
AddFoilDetector ==
    \E fd \in Objects :
        /\ Len(cam._foil_detectors) < MaxFoils
        /\ LET o == add_foil_detector(cam, parent, fd) IN
            /\ cam' = o.cam
            /\ parent' = o.parent
            /\ result' = [op |-> "add_foil_detector", err |-> o.err]
        /\ UNCHANGED <<pipeline, file, twin, todo>>

ListValues == {[kind |-> "list", items |-> s] : s \in SeqsUpTo(Objects, MaxList)}

\* a value that is not a list
NotAList == [kind |-> "tuple", items |-> <<>>]

(***************************************************************************)
(* camera.foil_detectors = value                                           *)
(***************************************************************************)
Assign(value) ==
    /\ LET o == set_foil_detectors(cam, parent, value) IN
        /\ cam' = o.cam
        /\ parent' = o.parent
        /\ result' = [op |-> "foil_detectors", err |-> o.err]
    /\ UNCHANGED <<pipeline, file, twin, todo>>

SetFoilDetectors == \E value \in ListValues \cup {NotAList} : Assign(value)

(***************************************************************************)
(* BolometerCamera.__getitem__.  The attributes of an object are the       *)
(* fields of its record; reading an attribute the object does not have     *)
(* raises AttributeError, which `except IndexError` does not catch.  A     *)
(* key is [kind, v]; a Python list accepts the indices -len .. len-1.      *)
(***************************************************************************)
HasAttr(obj, a) == a \in DOMAIN obj

Raise(err) == [err |-> err, value |-> None]

Return(v) == [err |-> "none", value |-> v]

ListIndex(list, i) ==
    IF 0 <= i /\ i < Len(list) THEN Return(list[i + 1])
    ELSE IF -Len(list) <= i /\ i < 0 THEN Return(list[Len(list) + i + 1])
    ELSE Raise("IndexError")

RECURSIVE ScanByName(_, _, _)
ScanByName(list, item, i) ==
    IF i > Len(list) THEN Raise("ValueError")
    ELSE IF ~HasAttr(list[i], "name") THEN Raise("AttributeError")
    ELSE IF list[i].name = item THEN Return(list[i])
    ELSE ScanByName(list, item, i + 1)

__getitem__(c, item) ==
    IF item.kind = "int" THEN
        IF ~HasAttr(c, "_sight_lines") THEN Raise("AttributeError")
        ELSE ListIndex(c._sight_lines, item.v)
    ELSE IF item.kind = "str" THEN
        IF ~HasAttr(c, "_sight_lines") THEN Raise("AttributeError")
        ELSE ScanByName(c._sight_lines, item.v, 1)
    ELSE Raise("TypeError")

Keys ==
    {[kind |-> "int", v |-> i] : i \in (-1)..MaxList}
        \cup {[kind |-> "str", v |-> n] : n \in {"F1", "F2", "F9"}}
        \cup {[kind |-> "NoneType", v |-> 0]}

(***************************************************************************)
(* camera[item]                                                            *)
(***************************************************************************)
GetItem ==
    \E item \in Keys :
        /\ result' = [op |-> "getitem", item |-> item, out |-> __getitem__(cam, item)]
        /\ UNCHANGED <<cam, parent, pipeline, file, twin, todo>>

NextCamera == AddFoilDetector \/ SetFoilDetectors \/ GetItem

SpecCamera == Init /\ [][NextCamera]_vars

(***************************************************************************)
(* The power pipeline of a foil.  BolometerFoil.__init__ builds it with    *)
(* PowerPipeline0D(accumulate=False) and hands it to an observer that      *)
(* takes pixel_samples samples per observe(): 1 for a SightLine, 250 for a *)
(* TargetedPixel.  A pipeline that does not accumulate is cleared when an  *)
(* observation starts.  A pipeline is [samples, total]; its mean is        *)
(* total / samples.                                                        *)
(***************************************************************************)
SightLineSamples == 1

TargetedPixelSamples == 250

\* variant: the default of PowerPipeline0D, accumulate=True
accumulate_on == TRUE

accumulate == FALSE

pixel_samples(f) ==
    IF f.ray_type = "Sightline" THEN SightLineSamples ELSE TargetedPixelSamples

PipelineObserve(p, n, mean) ==
    IF accumulate THEN [samples |-> p.samples + n, total |-> p.total + n * mean]
    ELSE [samples |-> n, total |-> n * mean]

\* the mean power of the samples of one observation, as the engine finds it
Means == {1, 2}

\* what the observation engine does with one observe(): it completes with a
\* mean, or it raises, leaving the pipeline as it was or cleared
EngineOutcomes ==
    {[ok |-> TRUE, mean |-> m, cleared |-> FALSE] : m \in Means}
        \cup {[ok |-> FALSE, mean |-> 0, cleared |-> b] : b \in BOOLEAN}

(***************************************************************************)
(* BolometerFoil.observe: self._observer.observe()                         *)
(***************************************************************************)
foil_observe(p, f, out) ==
    IF out.ok
    THEN [err |-> "none", pipeline |-> PipelineObserve(p, pixel_samples(f), out.mean)]
    ELSE [err |-> "EngineError", pipeline |-> IF out.cleared THEN EmptyPipeline ELSE p]

(***************************************************************************)
(* BolometerFoil.observed_power                                            *)
(***************************************************************************)
observed_power(p) ==
    IF p.samples <= 0 THEN Raise("ValueError") ELSE Return(p.total \div p.samples)

(***************************************************************************)
(* BolometerCamera.observe: the loop over self._foil_detectors.  `calls`   *)
(* logs the engine: <<"call", oid>> when foil.observe() is entered, then   *)
(* <<"return", oid>> or <<"raise", oid>>.  An exception ends the loop.     *)
(***************************************************************************)
\* variant: the loop runs over the foil sequence from its end
RECURSIVE ObserveReversed(_, _, _, _, _)
ObserveReversed(fds, pl, outs, i, calls) ==
    IF i < 1 THEN [pipeline |-> pl, calls |-> calls, err |-> "none"]
    ELSE LET f == fds[i]
             o == foil_observe(pl[f.oid], f, outs[i])
             newpl == [pl EXCEPT ![f.oid] = o.pipeline]
         IN  IF o.err # "none"
             THEN [pipeline |-> newpl, err |-> o.err,
                   calls |-> calls \o <<<<"call", f.oid>>, <<"raise", f.oid>>>>]
             ELSE ObserveReversed(fds, newpl, outs, i - 1,
                                  calls \o <<<<"call", f.oid>>, <<"return", f.oid>>>>)

RECURSIVE ObserveLoop(_, _, _, _, _)
ObserveLoop(fds, pl, outs, i, calls) ==
    IF i > Len(fds) THEN [pipeline |-> pl, calls |-> calls, err |-> "none"]
    ELSE LET f == fds[i]
             o == foil_observe(pl[f.oid], f, outs[i])
             newpl == [pl EXCEPT ![f.oid] = o.pipeline]
         IN  IF o.err # "none"
             THEN [pipeline |-> newpl, err |-> o.err,
                   calls |-> calls \o <<<<"call", f.oid>>, <<"raise", f.oid>>>>]
             ELSE ObserveLoop(fds, newpl, outs, i + 1,
                              calls \o <<<<"call", f.oid>>, <<"return", f.oid>>>>)

camera_observe_reversed(c, pl, outs) ==
    ObserveReversed(c._foil_detectors, pl, outs, Len(c._foil_detectors), <<>>)

camera_observe(c, pl, outs) == ObserveLoop(c._foil_detectors, pl, outs, 1, <<>>)

(***************************************************************************)
(* camera.observe()                                                        *)
(***************************************************************************)
CameraObserve ==
    \E outs \in [1..Len(cam._foil_detectors) -> EngineOutcomes] :
        /\ LET o == camera_observe(cam, pipeline, outs) IN
            /\ pipeline' = o.pipeline
            /\ result' = [op |-> "observe", calls |-> o.calls, err |-> o.err]
        /\ UNCHANGED <<cam, parent, file, twin, todo>>

NextObserve == AddFoilDetector \/ SetFoilDetectors \/ CameraObserve

SpecObserve == Init /\ [][NextObserve]_vars

(***************************************************************************)
(* foil.observe() called on one foil, and foil.observed_power read.        *)
(* `before` is the pipeline as the call found it.                          *)
(***************************************************************************)
FoilObserve ==
    \E f \in FoilObjs, out \in EngineOutcomes :
        /\ LET o == foil_observe(pipeline[f.oid], f, out) IN
            /\ pipeline' = [pipeline EXCEPT ![f.oid] = o.pipeline]
            /\ result' = [op |-> "foil.observe", foil |-> f, mean |-> out.mean,
                          before |-> pipeline[f.oid], err |-> o.err]
        /\ UNCHANGED <<cam, parent, file, twin, todo>>

ObservedPower ==
    \E f \in FoilObjs :
        /\ result' = [op |-> "observed_power", foil |-> f,
                      out |-> observed_power(pipeline[f.oid])]
        /\ UNCHANGED <<cam, parent, pipeline, file, twin, todo>>

NextPipe == FoilObserve \/ ObservedPower

SpecPipe == Init /\ [][NextPipe]_vars

(***************************************************************************)
(* BolometerFoil.__init__.  An argument is a value [kind, v]; isinstance   *)
(* looks at the kind.  The checks run in the order of the statements of    *)
(* the constructor; the basis vectors are normalised between the basis     *)
(* checks and the dx check, which raises ZeroDivisionError for a vector of *)
(* zero length (v = 0).  An exception names the argument it is about.      *)
(***************************************************************************)
RaiseAt(err, arg) == [err |-> err, arg |-> arg]

Constructed == [err |-> "none", arg |-> "none"]

RayTypes == {"Sightline", "Targeted"}

GeometryChecks(a) ==
    IF a.centre_point.kind # "Point3D" THEN RaiseAt("TypeError", "centre_point")
    ELSE IF a.basis_x.kind # "Vector3D" THEN RaiseAt("TypeError", "basis_x")
    ELSE IF a.basis_y.kind # "Vector3D" THEN RaiseAt("TypeError", "basis_y")
    ELSE IF a.basis_x.v = 0 THEN RaiseAt("ZeroDivisionError", "basis_x")
    ELSE IF a.basis_y.v = 0 THEN RaiseAt("ZeroDivisionError", "basis_y")
    ELSE IF a.dx.kind # "float" THEN RaiseAt("TypeError", "dx")
    ELSE IF ~(a.dx.v > 0) THEN RaiseAt("ValueError", "dx")
    ELSE IF a.dy.kind # "float" THEN RaiseAt("TypeError", "dy")
    ELSE IF ~(a.dy.v > 0) THEN RaiseAt("ValueError", "dy")
    ELSE Constructed

\* variant: ray_type is checked before slit
BolometerFoil_ray_type_first(a) ==
    IF a.ray_type \notin RayTypes THEN RaiseAt("ValueError", "ray_type")
    ELSE IF a.slit.kind # "BolometerSlit" THEN RaiseAt("TypeError", "slit")
    ELSE GeometryChecks(a)

BolometerFoil(a) ==
    IF a.slit.kind # "BolometerSlit" THEN RaiseAt("TypeError", "slit")
    ELSE IF a.ray_type \notin RayTypes THEN RaiseAt("ValueError", "ray_type")
    ELSE GeometryChecks(a)

SlitArgs == {BolometerSlit(1, "S1"), None}

PointArgs == {[kind |-> "Point3D", v |-> 1], [kind |-> "tuple", v |-> 1]}

VectorArgs ==
    {[kind |-> "Vector3D", v |-> 1], [kind |-> "Vector3D", v |-> 0],
     [kind |-> "tuple", v |-> 1]}

ExtentArgs ==
    {[kind |-> "float", v |-> 1], [kind |-> "float", v |-> 0],
     [kind |-> "float", v |-> -1], [kind |-> "int", v |-> 1]}

ConstructorArgs ==
    [slit : SlitArgs, ray_type : RayTypes \cup {"Fan"}, centre_point : PointArgs,
     basis_x : VectorArgs, basis_y : VectorArgs, dx : ExtentArgs, dy : ExtentArgs]

(***************************************************************************)
(* BolometerFoil(detector_id, centre_point, basis_x, dx, basis_y, dy,      *)
(*               slit, ray_type)                                           *)
(***************************************************************************)
Construct ==
    \E a \in ConstructorArgs :
        /\ result' = [op |-> "BolometerFoil", args |-> a, out |-> BolometerFoil(a)]
        /\ UNCHANGED <<cam, parent, pipeline, file, twin, todo>>

NextCtor == Construct

SpecCtor == Init /\ [][NextCtor]_vars

(***************************************************************************)
(* The same list registered in bulk in a new camera (cam) and element by   *)
(* element with add_foil_detector in another new camera (twin), which has  *)
(* its own record of the foils' parents.  The adding stops at the first    *)
(* exception.                                                              *)
(***************************************************************************)
PickList ==
    \E items \in SeqsUpTo(Objects, MaxTodo) :
        /\ todo = None
        /\ todo' = [kind |-> "list", items |-> items]
        /\ twin' = [cam |-> NewCamera("C1"), parent |-> NoParent, pos |-> 1,
                    err |-> "none"]
        /\ result' = [op |-> "pick"]
        /\ UNCHANGED <<cam, parent, pipeline, file>>

AssignPicked ==
    /\ todo # None
    /\ result.op = "pick"
    /\ Assign(todo)

TwinAdd ==
    /\ todo # None
    /\ twin.err = "none"
    /\ twin.pos <= Len(todo.items)
    /\ LET o == add_foil_detector(twin.cam, twin.parent, todo.items[twin.pos]) IN
        twin' = [cam |-> o.cam, parent |-> o.parent, err |-> o.err,
                 pos |-> IF o.err = "none" THEN twin.pos + 1 ELSE twin.pos]
    /\ UNCHANGED <<cam, parent, pipeline, result, file, todo>>

NextEquiv == PickList \/ AssignPicked \/ TwinAdd

SpecEquiv == Init /\ [][NextEquiv]_vars

(***************************************************************************)
(* The serialised state.  __getstate__ of a slit, of a foil and of the     *)
(* camera, as the dictionaries json.dump writes (the geometry fields, of   *)
(* which no property is stated here, are left out).                        *)
(***************************************************************************)
slit_getstate(slit) ==
    [CHERAB_Object_Type |-> "BolometerSlit", Version |-> 1, Slit_ID |-> slit.slid_id]

foil_getstate(f) ==
    [CHERAB_Object_Type |-> "BolometerFoil", Version |-> 1,
     Detector_ID |-> f.detector_id, ray_type |-> f.ray_type,
     slit_id |-> f.slit.slid_id]

camera_getstate(c) ==
    [CHERAB_Object_Type |-> "BolometerCamera", Version |-> 1, Camera_ID |-> c.name,
     slits |-> [i \in 1..Len(c._slits) |-> slit_getstate(c._slits[i])],
     foil_detectors |->
        [i \in 1..Len(c._foil_detectors) |-> foil_getstate(c._foil_detectors[i])]]

(***************************************************************************)
(* BolometerCamera.save.  A filename is the pair <<root, extension>> that  *)
(* os.path.splitext makes of it.                                           *)
(***************************************************************************)
save(c, filename) ==
    IF filename[2] = ".json" THEN [err |-> "none", written |-> camera_getstate(c)]
    ELSE [err |-> "NotImplementedError", written |-> None]

Filenames == {<<"camera", ".json">>, <<"camera", ".pickle">>}

(***************************************************************************)
(* load_bolometer_camera.  slit_dict is a function from slit ids to the    *)
(* slits built so far; the slit built from entry i has oid 100 + i, the    *)
(* foil built from entry j has oid 200 + j.  Reading a key a dictionary    *)
(* does not have raises KeyError.  The outcome names the entry at which    *)
(* the exception was raised.                                               *)
(***************************************************************************)
LoadFailed(err, at) == [err |-> err, at |-> at, camera |-> None]

DictSet(d, k, v) == [x \in DOMAIN d \cup {k} |-> IF x = k THEN v ELSE d[x]]

RECURSIVE LoadSlits(_, _, _)
LoadSlits(entries, i, slit_dict) ==
    IF i > Len(entries) THEN [err |-> "none", slit_dict |-> slit_dict]
    ELSE LET slit == entries[i] IN
        IF slit.CHERAB_Object_Type # "BolometerSlit"
        THEN LoadFailed("ValueError", <<"slit", i>>)
        ELSE IF slit.Version # 1 THEN LoadFailed("ValueError", <<"slit", i>>)
        ELSE LoadSlits(entries, i + 1,
                       DictSet(slit_dict, slit.Slit_ID,
                               BolometerSlit(100 + i, slit.Slit_ID)))

LoadedFoilArgs(slit, ray_type) ==
    [slit |-> slit, ray_type |-> ray_type,
     centre_point |-> [kind |-> "Point3D", v |-> 1],
     basis_x |-> [kind |-> "Vector3D", v |-> 1],
     basis_y |-> [kind |-> "Vector3D", v |-> 1],
     dx |-> [kind |-> "float", v |-> 1], dy |-> [kind |-> "float", v |-> 1]]

RECURSIVE LoadFoils(_, _, _, _, _, _)
LoadFoils(entries, j, slit_dict, c, par, slit_key) ==
    IF j > Len(entries) THEN [err |-> "none", at |-> <<>>, camera |-> c, parent |-> par]
    ELSE LET detector == entries[j] IN
        IF detector.CHERAB_Object_Type # "BolometerFoil"
        THEN LoadFailed("ValueError", <<"foil", j>>)
        ELSE IF detector.Version # 1 THEN LoadFailed("ValueError", <<"foil", j>>)
        ELSE IF ~HasAttr(detector, slit_key) THEN LoadFailed("KeyError", <<"foil", j>>)
        ELSE IF detector[slit_key] \notin DOMAIN slit_dict
        THEN LoadFailed("KeyError", <<"foil", j>>)
        ELSE LET slit == slit_dict[detector[slit_key]]
                 made == BolometerFoil(LoadedFoilArgs(slit, detector.ray_type))
                 foil == BolometerFoilObj(200 + j, detector.Detector_ID, slit,
                                          detector.ray_type)
                 o == add_foil_detector(c, par, foil)
             IN  IF made.err # "none" THEN LoadFailed(made.err, <<"foil", j>>)
                 ELSE LoadFoils(entries, j + 1, slit_dict, o.cam, o.parent, slit_key)

load_reading(camera_state, slit_key) ==
    IF camera_state = None THEN LoadFailed("FileNotFoundError", <<>>)
    ELSE IF camera_state.CHERAB_Object_Type # "BolometerCamera"
    THEN LoadFailed("ValueError", <<"camera">>)
    ELSE IF camera_state.Version # 1 THEN LoadFailed("ValueError", <<"camera">>)
    ELSE LET slits == LoadSlits(camera_state.slits, 1, <<>>) IN
        IF slits.err # "none" THEN slits
        ELSE LoadFoils(camera_state.foil_detectors, 1, slits.slit_dict,
                       NewCamera(camera_state.Camera_ID),
                       [j \in {200 + k : k \in 1..Len(camera_state.foil_detectors)}
                            |-> "camera"],
                       slit_key)

load_bolometer_camera(camera_state) == load_reading(camera_state, "Slit_ID")

(***************************************************************************)
(* camera.save(filename), and load_bolometer_camera of the file saved      *)
(***************************************************************************)
Save ==
    \E filename \in Filenames :
        /\ LET o == save(cam, filename) IN
            /\ file' = IF o.err = "none" THEN o.written ELSE file
            /\ result' = [op |-> "save", err |-> o.err]
        /\ UNCHANGED <<cam, parent, pipeline, twin, todo>>

Load ==
    /\ result' = [op |-> "load", out |-> load_bolometer_camera(file)]
    /\ UNCHANGED <<cam, parent, pipeline, file, twin, todo>>

NextFile == AddFoilDetector \/ Save \/ Load

SpecFile == Init /\ [][NextFile]_vars

(***************************************************************************)
(* Files written by hand: a camera entry, up to MaxEntries slit entries    *)
(* and foil entries, with right and wrong type tags and versions; a foil   *)
(* entry names its slit under 'slit_id' (as save writes it) or 'Slit_ID'.  *)
(***************************************************************************)
Tags(right) == {right, "Unknown"}

Versions == {1, 2}

SlitEntries ==
    [CHERAB_Object_Type : Tags("BolometerSlit"), Version : Versions,
     Slit_ID : {"S1", "S2"}]

FoilEntries ==
    [CHERAB_Object_Type : Tags("BolometerFoil"), Version : Versions,
     Detector_ID : {"F1"}, ray_type : {"Targeted"}, slit_id : {"S1", "S2"}]
    \cup
    [CHERAB_Object_Type : Tags("BolometerFoil"), Version : Versions,
     Detector_ID : {"F1"}, ray_type : {"Targeted"}, Slit_ID : {"S1", "S2"}]

HandWrittenFiles ==
    [CHERAB_Object_Type : Tags("BolometerCamera"), Version : Versions,
     Camera_ID : {"C1"}, slits : SeqsUpTo(SlitEntries, MaxEntries),
     foil_detectors : SeqsUpTo(FoilEntries, MaxEntries)]

WriteFile ==
    \E content \in HandWrittenFiles :
        /\ file = None
        /\ file' = content
        /\ result' = [op |-> "write"]
        /\ UNCHANGED <<cam, parent, pipeline, twin, todo>>

NextLoad == WriteFile \/ Load

SpecLoad == Init /\ [][NextLoad]_vars

----------------------------------------------------------------------------
(***************************************************************************)
(* C2: every slit referenced by a foil of the camera's foil sequence is in *)
(* the camera's slit list exactly once, membership being by identity.      *)
(***************************************************************************)
Occurrences(list, x) == Cardinality({j \in 1..Len(list) : list[j] = x})

C2_SlitOfEveryFoilOnce ==
    \A i \in 1..Len(cam._foil_detectors) :
        Occurrences(cam._slits, cam._foil_detectors[i].slit) = 1

\* two foils share one slit instance, and two slit instances with the same
\* fields are both registered
C2_Witness ==
    /\ \E i, j \in 1..Len(cam._foil_detectors) :
        /\ i # j
        /\ cam._foil_detectors[i] # cam._foil_detectors[j]
        /\ cam._foil_detectors[i].slit = cam._foil_detectors[j].slit
    /\ \E i, j \in 1..Len(cam._slits) :
        /\ cam._slits[i] # cam._slits[j]
        /\ cam._slits[i].slid_id = cam._slits[j].slid_id

(***************************************************************************)
(* C3: camera[key]: an integer key in bounds returns the foil at that      *)
(* position and out of bounds raises IndexError; a string key returns the  *)
(* first foil with that id and raises ValueError when none has it; any     *)
(* other key raises TypeError.                                             *)
(***************************************************************************)
FirstWithId(list, id) ==
    LET hits == {i \in 1..Len(list) : list[i].detector_id = id} IN
    IF hits = {} THEN Raise("ValueError")
    ELSE Return(list[CHOOSE i \in hits : \A j \in hits : i <= j])

C3_Indexing ==
    result.op = "getitem" =>
        LET fds == cam._foil_detectors
            item == result.item
        IN  result.out =
                IF item.kind = "int" THEN
                    IF 0 <= item.v /\ item.v < Len(fds) THEN Return(fds[item.v + 1])
                    ELSE IF item.v >= Len(fds) THEN Raise("IndexError")
                    ELSE result.out
                ELSE IF item.kind = "str" THEN FirstWithId(fds, item.v)
                ELSE Raise("TypeError")

(***************************************************************************)
(* C8: every slit of the camera's slit list is the slit of at least one    *)
(* foil of the camera's current foil sequence.                             *)
(***************************************************************************)
C8_NoUnreferencedSlit ==
    \A j \in 1..Len(cam._slits) :
        \E i \in 1..Len(cam._foil_detectors) :
            cam._foil_detectors[i].slit = cam._slits[j]

(***************************************************************************)
(* C10: an assignment to foil_detectors that raises TypeError leaves       *)
(* the foil sequence, the slit list and every foil's parent as they were.  *)
(***************************************************************************)
C10_FailedAssignmentChangesNothing ==
    [][(result'.op = "foil_detectors" /\ result'.err = "TypeError")
            => (cam' = cam /\ parent' = parent)]_vars

(***************************************************************************)
(* C4: a camera.observe() in which no foil's observation fails calls       *)
(* observe() on the foils of the foil sequence, one call per entry, in     *)
(* sequence order, each call returning before the next is made; with no    *)
(* foils it makes no call and succeeds.                                    *)
(***************************************************************************)
RECURSIVE CallsInOrder(_)
CallsInOrder(fds) ==
    IF fds = <<>> THEN <<>>
    ELSE <<<<"call", Head(fds).oid>>, <<"return", Head(fds).oid>>>> \o CallsInOrder(Tail(fds))

NonZeroBasis(a) ==
    /\ a.basis_x.kind = "Vector3D" => a.basis_x.v # 0
    /\ a.basis_y.kind = "Vector3D" => a.basis_y.v # 0

FirstOfTail(a) ==
    IF a.centre_point.kind # "Point3D" THEN RaiseAt("TypeError", "centre_point")
    ELSE IF a.basis_x.kind # "Vector3D" THEN RaiseAt("TypeError", "basis_x")
    ELSE IF a.basis_y.kind # "Vector3D" THEN RaiseAt("TypeError", "basis_y")
    ELSE IF a.dx.kind # "float" THEN RaiseAt("TypeError", "dx")
    ELSE IF a.dx.v <= 0 THEN RaiseAt("ValueError", "dx")
    ELSE IF a.dy.kind # "float" THEN RaiseAt("TypeError", "dy")
    ELSE IF a.dy.v <= 0 THEN RaiseAt("ValueError", "dy")
    ELSE Constructed

TwinDone == twin.err # "none" \/ twin.pos > Len(todo.items)

C9_BulkEqualsIncremental ==
    (todo # None /\ result.op = "foil_detectors" /\ TwinDone) =>
        IF \A i \in 1..Len(todo.items) : IsFoil(todo.items[i])
        THEN /\ result.err = "none"
             /\ twin.err = "none"
             /\ twin.cam = cam
             /\ twin.parent = parent
        ELSE /\ result.err = "TypeError"
             /\ twin.err = "TypeError"

\* both registrations of a list of three foils, two of them sharing a slit,
\* are complete
C9_Witness ==
    /\ todo # None
    /\ result.op = "foil_detectors"
    /\ TwinDone
    /\ result.err = "none"
    /\ Len(cam._foil_detectors) >= 3
    /\ Len(cam._slits) = 2

(***************************************************************************)
(* C1: a camera built with add_foil_detector that holds at least one foil, *)
(* saved to a .json file and loaded again, gives a camera with the same    *)
(* camera id, the same sequence of foil ids, the same set of slit ids, and *)
(* each foil bound to a slit of the same slit id as in the original.       *)
(***************************************************************************)
SlitIds(slits) == {slits[i].slid_id : i \in 1..Len(slits)}

C1_RoundTrip ==
    (result.op = "load" /\ file = camera_getstate(cam) /\ Len(cam._foil_detectors) >= 1)
        => /\ result.out.err = "none"
           /\ LET loaded == result.out.camera IN
                /\ loaded.name = cam.name
                /\ Len(loaded._foil_detectors) = Len(cam._foil_detectors)
                /\ \A i \in 1..Len(cam._foil_detectors) :
                    /\ loaded._foil_detectors[i].detector_id
                            = cam._foil_detectors[i].detector_id
                    /\ loaded._foil_detectors[i].slit.slid_id
                            = cam._foil_detectors[i].slit.slid_id
                    /\ loaded._foil_detectors[i].slit \in Range(loaded._slits)
                /\ SlitIds(loaded._slits) = SlitIds(cam._slits)

(***************************************************************************)
(* C5: loading a file whose top-level version is not 1, or in which a type *)
(* tag is wrong, or in which a foil names a slit id that no slit entry     *)
(* carries, raises the format-validation error (ValueError) at the first   *)
(* invalid entry in file order, and returns no camera.                     *)
(***************************************************************************)
NamedSlit(entry) == IF HasAttr(entry, "slit_id") THEN entry.slit_id ELSE entry.Slit_ID

EntryIds(entries) == {entries[i].Slit_ID : i \in 1..Len(entries)}

BadSlitEntries(f) ==
    {i \in 1..Len(f.slits) :
        f.slits[i].CHERAB_Object_Type # "BolometerSlit" \/ f.slits[i].Version # 1}

BadFoilEntries(f) ==
    {j \in 1..Len(f.foil_detectors) :
        \/ f.foil_detectors[j].CHERAB_Object_Type # "BolometerFoil"
        \/ f.foil_detectors[j].Version # 1
        \/ NamedSlit(f.foil_detectors[j]) \notin EntryIds(f.slits)}

Least(S) == CHOOSE i \in S : \A j \in S : i <= j

FirstInvalidEntry(f) ==
    IF f.CHERAB_Object_Type # "BolometerCamera" \/ f.Version # 1 THEN <<"camera">>
    ELSE IF BadSlitEntries(f) # {} THEN <<"slit", Least(BadSlitEntries(f))>>
    ELSE IF BadFoilEntries(f) # {} THEN <<"foil", Least(BadFoilEntries(f))>>
    ELSE <<>>

C5_InvalidFileIsRejected ==
    (result.op = "load" /\ file # None /\ FirstInvalidEntry(file) # <<>>)
        => result.out = LoadFailed("ValueError", FirstInvalidEntry(file))

====
